---- MODULE Spec2Model ----
(***************************************************************************)
(* The transaction submission pipeline of the AKSOL control panel: the     *)
(* handleSubmit handlers of the four transfer cards (PurchaseCard and the  *)
(* three versions of TaxedSendCard), the activity log they share through   *)
(* App.logAction, and the external collaborators they await (backend,      *)
(* wallet, network).  A handler is cut into one action per await: each     *)
(* action runs the code from one await to the next.                        *)
(*                                                                         *)
(* Strings of the program are TLA+ strings, "" standing for null,          *)
(* undefined and the empty string alike (all falsy in the code's tests).   *)
(* A message built by a template literal is the sequence of its parts;     *)
(* the null error is the empty sequence.  A destination address is a       *)
(* sequence of one-character strings, so that trim() is computed.          *)
(***************************************************************************)
EXTENDS Integers, Sequences, FiniteSets, TLC

\* ------------------------------------------------------------------ bounds

\* How many handleSubmit invocations one behaviour starts.
MaxSubmits == 2

\* How many handleSubmit invocations the cards of the page start together in
\* one behaviour (more than the activity log holds).
MaxAppSubmits == 4

\* How many times decodeTransaction is called in one behaviour.
MaxDecodes == 3

\* How many handleSubmit invocations a behaviour starts where every awaited
\* promise settles.
MaxLiveSubmits == 1

\* How many times the storefront form is submitted in one behaviour.
MaxStoreSubmits == 2

\* How many times the wallet's address changes in one behaviour.
MaxWalletChanges == 3

\* ------------------------------------------------------- program constants

\* part_002:65  toAddress.trim().length < 8
MinAddrLen == 8
\* App.tsx:34   [item, ...prev].slice(0, 3)
LogCapacity == 3

\* ------------------------------------------------------------------- cards

PurchaseCard == "PurchaseCard"        \* part_000:56
TaxedSendV1 == "TaxedSendV1"          \* part_001:11  (single path, signTransaction)
TaxedSendV2 == "TaxedSendV2"          \* part_002:15  (dual path, signTransaction)
TaxedSendV3 == "TaxedSendV3"          \* part_002:332 (dual path, sendTransaction)

Cards == {PurchaseCard, TaxedSendV1, TaxedSendV2, TaxedSendV3}

\* The other components of the page with a handler of their own.
StatusCard == "StatusCard"            \* StatusCard.tsx:18
StorefrontPurchaseCard == "StorefrontPurchaseCard"     \* part_003:118
WalletOverview == "WalletOverview"    \* PriceTickerBar.tsx:210

\* The cards whose handler reads a signature from the response (CASE A).
DualPath == {TaxedSendV2, TaxedSendV3}
\* The cards whose form has a destination field.
HasDestination == {TaxedSendV1, TaxedSendV2, TaxedSendV3}

\* ------------------------------------------------------------------ inputs

\* useWallet(): connected, publicKey (base58, "" when null), signTransaction.
Disconnected == [connected |-> FALSE, publicKey |-> "", canSign |-> FALSE]
ConnectedNoSign == [connected |-> TRUE, publicKey |-> "Wallet1", canSign |-> FALSE]
ConnectedSigner == [connected |-> TRUE, publicKey |-> "Wallet1", canSign |-> TRUE]
Wallets == {Disconnected, ConnectedNoSign, ConnectedSigner}

\* The backendBaseUrl prop of TaxedSendV3 (optional, part_002:316).
BackendUrls == {"", "http://localhost:8080"}

\* What the user can have typed in the amount field.
AmountInputs == {"", "abc", "0", "-1", "0.5", "Infinity"}

\* Number(s) of part_000:90, in tenths: a number is NaN, an infinity or finite.
Number(s) ==
    CASE s = "" -> [cls |-> "finite", tenths |-> 0]
      [] s = "0" -> [cls |-> "finite", tenths |-> 0]
      [] s = "-1" -> [cls |-> "finite", tenths |-> -10]
      [] s = "0.5" -> [cls |-> "finite", tenths |-> 5]
      [] s = "Infinity" -> [cls |-> "infinity", tenths |-> 1]
      [] OTHER -> [cls |-> "NaN", tenths |-> 0]

\* Number.isFinite
IsFinite(n) == n.cls = "finite"

\* n <= 0 as JavaScript compares: false for NaN, false for +Infinity.
LeqZero(n) ==
    CASE n.cls = "NaN" -> FALSE
      [] n.cls = "infinity" -> n.tenths < 0
      [] OTHER -> n.tenths <= 0

Rep(ch, n) == [i \in 1..n |-> ch]

\* What the user can have typed in the destination field: nothing, blanks,
\* three characters, an address of the minimum length, and one character
\* less between blanks.
AddrInputs ==
    { <<>>,
      Rep(" ", 3),
      Rep("a", 3),
      Rep("a", MinAddrLen),
      <<" ">> \o Rep("a", MinAddrLen - 1) \o <<" ">> }

RECURSIVE TrimStart(_)
TrimStart(s) ==
    IF s # <<>> /\ Head(s) = " " THEN TrimStart(Tail(s)) ELSE s

RECURSIVE TrimEnd(_)
TrimEnd(s) ==
    IF s # <<>> /\ s[Len(s)] = " " THEN TrimEnd(SubSeq(s, 1, Len(s) - 1)) ELSE s

\* String.prototype.trim
Trim(s) == TrimEnd(TrimStart(s))

\* ------------------------------------------------- the backend's responses

\* Serialized transactions (base64 strings) a response can carry: a legacy
\* transaction, a versioned (v0) transaction, valid base64 of bytes that are
\* no transaction, and a string that is not base64.
Envelopes == {"B64_LEGACY", "B64_V0", "B64_GARBAGE", "NOT*BASE64"}

\* The signature a backend reports, and the one the network assigns.
BackendSig == "SIGB"
NetworkSig == "SIGN"

\* A JSON body, with every field a handler reads ("" = absent).
NoBody ==
    [ok |-> FALSE, signature |-> "", txSignature |-> "",
     transactionSignature |-> "", sig |-> "", transaction |-> "", tx |-> "",
     txBase64 |-> "", serializedTx |-> "", error |-> ""]

\* Where a body can carry its signature, and where its transaction.
SigShapes ==
    { [signature |-> "", txSignature |-> "", sig |-> ""],
      [signature |-> BackendSig, txSignature |-> "", sig |-> ""],
      [signature |-> "", txSignature |-> BackendSig, sig |-> ""],
      [signature |-> "", txSignature |-> "", sig |-> BackendSig] }

TxShapes ==
    { [transaction |-> "", tx |-> ""] }
    \cup { [transaction |-> e, tx |-> ""] : e \in Envelopes }
    \cup { [transaction |-> "", tx |-> "B64_LEGACY"] }

\* The bodies the backend can answer with: ok or not, at most one field with
\* a signature, at most one with a transaction, and an error text or none
\* (bodies with a transaction are taken without error text).
Bodies ==
    { [NoBody EXCEPT !.ok = o, !.signature = s.signature,
                     !.txSignature = s.txSignature, !.sig = s.sig,
                     !.transaction = t.transaction, !.tx = t.tx, !.error = e] :
        o \in BOOLEAN, s \in SigShapes, t \in TxShapes,
        e \in {"", "insufficient funds"} }
    \ { b \in [ok : BOOLEAN, signature : {"", BackendSig},
                txSignature : {"", BackendSig}, transactionSignature : {""},
                sig : {"", BackendSig}, transaction : Envelopes \cup {""},
                tx : {"", "B64_LEGACY"}, txBase64 : {""}, serializedTx : {""},
                error : {"insufficient funds"}] :
            b.transaction # "" \/ b.tx # "" }

\* An HTTP response: its status, whether its body parses as JSON, the body.
Responses ==
    { [status |-> st, jsonOk |-> FALSE, body |-> NoBody] : st \in {200, 404, 500} }
    \cup { [status |-> 200, jsonOk |-> TRUE, body |-> b] : b \in Bodies }

\* Response.ok
RespOk(status) == status >= 200 /\ status <= 299

\* `${resp.status}`
StatusText(status) ==
    CASE status = 200 -> "200"
      [] status = 404 -> "404"
      [] status = 500 -> "500"
      [] OTHER -> "0"

\* a || b on strings
JsOr(a, b) == IF a # "" THEN a ELSE b

\* ------------------------------------------------------------ thrown values

\* A value a rejected promise or a throw carries: an Error with a message
\* (a sequence of parts, <<>> when empty), a string, or anything else.
Err(parts) == [kind |-> "Error", message |-> parts]
NoErr == [kind |-> "none", message |-> <<>>]

FetchErrors == {Err(<<"Failed to fetch">>)}
JsonErrors == {Err(<<"Unexpected token < in JSON">>)}
\* A wallet rejects with an Error, whose message can be empty.
SignErrors == {Err(<<"User rejected the request.">>), Err(<<>>)}
SendErrors == {Err(<<"Transaction simulation failed">>)}
\* The confirmation wait rejects with the client's timeout error, or with a
\* value that has no message (the catch block provides for both).
ConfirmErrors ==
    {Err(<<"Transaction was not confirmed in 30.00 seconds">>), Err(<<>>)}

\* ----------------------------------------------------------------- decoding

\* Buffer.from(s, "base64"): never throws, skips what is not base64.
BufferFromBase64(s) ==
    CASE s = "B64_LEGACY" -> "bytes:legacy"
      [] s = "B64_LEGACY_LOOSE" -> "bytes:legacyLoose"
      [] s = "B64_V0" -> "bytes:v0"
      [] OTHER -> "bytes:garbage"

\* atob(s) of decodeBase64ToBytes (part_002:322): throws on invalid base64.
DecodeBase64ToBytes(s) ==
    CASE s = "B64_LEGACY" -> [threw |-> NoErr, bytes |-> "bytes:legacy"]
      [] s = "B64_V0" -> [threw |-> NoErr, bytes |-> "bytes:v0"]
      [] s = "B64_LEGACY_LOOSE" -> [threw |-> NoErr, bytes |-> "bytes:legacyLoose"]
      [] s = "B64_GARBAGE" -> [threw |-> NoErr, bytes |-> "bytes:garbage"]
      [] OTHER ->
           [threw |-> Err(<<"The string to be decoded is not correctly encoded.">>),
            bytes |-> ""]

NoTx == [format |-> "", feePayer |-> ""]

\* Transaction.from(bytes): a legacy transaction, whose fee payer is the one
\* the backend set, or a throw: on the bytes of a versioned message, and on
\* bytes that are no transaction.
TransactionFrom(bytes) ==
    CASE bytes \in {"bytes:legacy", "bytes:legacyLoose"} ->
           [threw |-> NoErr, tx |-> [format |-> "legacy", feePayer |-> "BackendPayer"]]
      [] bytes = "bytes:v0" ->
           [threw |-> Err(<<"Versioned messages must be deserialized with VersionedMessage.deserialize()">>),
            tx |-> NoTx]
      [] OTHER ->
           [threw |-> Err(<<"Reached end of buffer unexpectedly">>), tx |-> NoTx]

\* The base64 strings decodeTransaction is called with: the envelopes, and
\* a legacy transaction serialized with fewer signatures than its header
\* requires, which the strict versioned parser refuses and the legacy parser
\* accepts.
DecodeInputs == Envelopes \cup {"B64_LEGACY_LOOSE"}

\* base64ToUint8Array (part_004:34-41): atob and a copy loop, as
\* decodeBase64ToBytes.
Base64ToUint8Array(base64) == DecodeBase64ToBytes(base64)

\* VersionedTransaction.deserialize(bytes): a versioned transaction, of a v0
\* message or of a legacy message, or a throw.
VersionedDeserialize(bytes) ==
    CASE bytes = "bytes:v0" ->
           [threw |-> NoErr, tx |-> [format |-> "versioned", feePayer |-> "BackendPayer"]]
      [] bytes = "bytes:legacy" ->
           [threw |-> NoErr, tx |-> [format |-> "versioned", feePayer |-> "BackendPayer"]]
      [] bytes = "bytes:legacyLoose" ->
           [threw |-> Err(<<"Expected signatures length to be equal to the number of required signatures">>),
            tx |-> NoTx]
      [] OTHER ->
           [threw |-> Err(<<"Reached end of bytes">>), tx |-> NoTx]

\* The outcome of a decodeTransaction call: what it threw, or the
\* transaction it returned and the bytes it was built from.
NoDecoded == [threw |-> NoErr, tx |-> NoTx, bytes |-> ""]

\* Mutant of DecodeTransaction: a failure of both parsers is answered with
\* an empty legacy transaction.
DecodeTransaction_NeverThrows(base64) ==
    LET b == Base64ToUint8Array(base64)
        v == VersionedDeserialize(b.bytes)
        l == TransactionFrom(b.bytes)
    IN  IF b.threw # NoErr THEN [NoDecoded EXCEPT !.threw = b.threw]
        ELSE IF v.threw = NoErr THEN [threw |-> NoErr, tx |-> v.tx, bytes |-> b.bytes]
        ELSE IF l.threw = NoErr THEN [threw |-> NoErr, tx |-> l.tx, bytes |-> b.bytes]
        ELSE [threw |-> NoErr, tx |-> [format |-> "legacy", feePayer |-> ""],
              bytes |-> b.bytes]

\* decodeTransaction (part_004:43-53): the bytes of the base64 string (atob
\* is outside the try: its throw leaves the function), then
\* VersionedTransaction.deserialize, and in its catch Transaction.from, whose
\* throw leaves the function.
DecodeTransaction(base64) ==
    LET b == Base64ToUint8Array(base64)
        v == VersionedDeserialize(b.bytes)
        l == TransactionFrom(b.bytes)
    IN  IF b.threw # NoErr THEN [NoDecoded EXCEPT !.threw = b.threw]
        ELSE IF v.threw = NoErr THEN [threw |-> NoErr, tx |-> v.tx, bytes |-> b.bytes]
        ELSE IF l.threw = NoErr THEN [threw |-> NoErr, tx |-> l.tx, bytes |-> b.bytes]
        ELSE [NoDecoded EXCEPT !.threw = l.threw]

\* The decode of a card: TaxedSendV3 goes through atob (part_002:419-420),
\* the others through Buffer.from (part_002:116).
Decode(c, base64Tx) ==
    IF c = TaxedSendV3
    THEN LET b == DecodeBase64ToBytes(base64Tx)
         IN  IF b.threw # NoErr THEN [threw |-> b.threw, tx |-> NoTx]
             ELSE TransactionFrom(b.bytes)
    ELSE TransactionFrom(BufferFromBase64(base64Tx))

\* --------------------------------------------------------------- messages

\* The prefix of a card's failure label and its fallback message
\* (part_000:137-142, part_001:98-103, part_002:129-134, part_002:432-437).
FailPrefix(c) ==
    IF c = PurchaseCard THEN "0% purchase failed: " ELSE "Taxed send failed: "

Fallback(c) ==
    IF c = PurchaseCard THEN "0% purchase failed." ELSE "Taxed send failed."

\* The label of a card's success entry (part_000:134, part_001:95,
\* part_002:101-102, part_002:428-429), the panel running on devnet.
SuccessLabel(c) ==
    CASE c = PurchaseCard -> <<"0% route purchase submitted">>
      [] c = TaxedSendV1 -> <<"Taxed send submitted">>
      [] OTHER -> <<"Taxed send (", "devnet", ")">>

\* The catch block's message:
\*   (err && typeof err.message === "string" && err.message) ||
\*   (typeof err === "string" && err) || fallback
CatchMessage(c, err) ==
    IF err.kind = "Error" /\ err.message # <<>> THEN err.message
    ELSE IF err.kind = "string" /\ err.message # <<>> THEN err.message
    ELSE <<Fallback(c)>>

\* Mutant of HttpError: the message names no status.
HttpError_NoStatus(status) == Err(<<"Backend HTTP error">>)

\* throw new Error(`Backend HTTP ${resp.status}`)
HttpError(status) == Err(<<"Backend HTTP ", StatusText(status)>>)

\* The throw of the payload check: part_000:119-121 and part_001:79-81 throw
\* json.error when the body has one, part_002:110-114 and 413-417 a literal.
PayloadError(c, data) ==
    CASE c \in {PurchaseCard, TaxedSendV1} ->
           IF data.error # "" THEN Err(<<data.error>>)
           ELSE Err(<<"Backend did not return a transaction.">>)
      [] c = TaxedSendV2 ->
           Err(<<"Backend did not return a signature or transaction. Check console logs for full response.">>)
      [] OTHER ->
           Err(<<"Backend did not return a signature or transaction. Check server logs.">>)

\* -------------------------------------------------------------- validation

\* The outcome of the checks before setLoading(true): the message shown
\* (<<>> when every check passes) and the label logged (<<>> when the branch
\* returns without calling logAction).
Passes == [error |-> <<>>, label |-> <<>>]
Rejects(msg, label) == [error |-> <<msg>>, label |-> label]

\* Mutant of BadAmount: the sign of the amount is not checked.
BadAmount_FiniteOnly(amt) == ~IsFinite(Number(amt))

\* !Number.isFinite(parsedAmount) || parsedAmount <= 0
BadAmount(amt) == ~IsFinite(Number(amt)) \/ LeqZero(Number(amt))

\* part_000:76-96
ValidatePurchase(w, amt) ==
    IF ~w.connected \/ w.publicKey = ""
    THEN Rejects("Connect a wallet before using the 0% route.",
                 <<"0% purchase failed: no wallet connected">>)
    ELSE IF ~w.canSign
    THEN Rejects("Current wallet does not support transaction signing.",
                 <<"0% purchase failed: wallet cannot sign">>)
    ELSE IF BadAmount(amt)
    THEN Rejects("Amount must be a positive number.", <<>>)
    ELSE Passes

\* part_001:32-58
ValidateV1(w, amt, addr) ==
    IF ~w.connected \/ w.publicKey = ""
    THEN Rejects("Connect a wallet before sending with tax.",
                 <<"Taxed send failed: no wallet connected">>)
    ELSE IF ~w.canSign
    THEN Rejects("Current wallet does not support transaction signing.",
                 <<"Taxed send failed: wallet cannot sign">>)
    ELSE IF Trim(addr) = <<>>
    THEN Rejects("Please enter a recipient address.", <<>>)
    ELSE IF BadAmount(amt)
    THEN Rejects("Amount must be a positive number.", <<>>)
    ELSE Passes

\* part_002:43-69
ValidateV2(w, amt, addr) ==
    IF ~w.connected \/ w.publicKey = ""
    THEN Rejects("Connect a wallet before sending with tax.",
                 <<"Taxed send failed: no wallet connected">>)
    ELSE IF ~w.canSign
    THEN Rejects("Current wallet does not support transaction signing.",
                 <<"Taxed send failed: wallet cannot sign">>)
    ELSE IF BadAmount(amt)
    THEN Rejects("Amount must be a positive number.", <<>>)
    ELSE IF addr = <<>> \/ Len(Trim(addr)) < MinAddrLen
    THEN Rejects("AKSOL recipient address looks incomplete.", <<>>)
    ELSE Passes

\* part_002:355-380; walletPublicKey is the connected wallet's address or null
ValidateV3(url, w, amt, addr) ==
    IF url = ""
    THEN Rejects("Backend URL is not configured.",
                 <<"Taxed send failed: backend URL not set">>)
    ELSE IF w.publicKey = ""
    THEN Rejects("Connect a wallet before using the taxed send route.",
                 <<"Taxed send failed: no wallet connected">>)
    ELSE IF addr = <<>> \/ amt = ""
    THEN Rejects("Enter a destination address and amount.", <<>>)
    ELSE IF BadAmount(amt)
    THEN Rejects("Amount must be a positive number.", <<>>)
    ELSE Passes

Validate(c, url, w, amt, addr) ==
    CASE c = PurchaseCard -> ValidatePurchase(w, amt)
      [] c = TaxedSendV1 -> ValidateV1(w, amt, addr)
      [] c = TaxedSendV2 -> ValidateV2(w, amt, addr)
      [] OTHER -> ValidateV3(url, w, amt, addr)

\* ---------------------------------------------------------------- requests

NoRequest == [fromPubkey |-> "", toPubkey |-> <<>>, amountUi |-> Number("")]

\* The JSON body of the POST: part_000:106-110, part_001:66-71,
\* part_002:77-82, part_002:389-394.
BuildRequest(c, w, amt, addr) ==
    [fromPubkey |-> w.publicKey,
     toPubkey |-> CASE c = PurchaseCard -> <<>>
                    [] c = TaxedSendV3 -> addr
                    [] OTHER -> Trim(addr),
     amountUi |-> Number(amt)]

\* ------------------------------------------------------- reading a response

\* Mutant of ReadSignature: data.signature is not among the fields read.
ReadSignature_Aliases(c, data) ==
    IF c \in DualPath
    THEN JsOr(data.txSignature, data.transactionSignature)
    ELSE ""

\* CASE A: the signature a card reads from the body (part_002:93-97,
\* part_002:405-406); the single-path cards read none.
ReadSignature(c, data) ==
    CASE c = TaxedSendV2 ->
           JsOr(data.signature,
                JsOr(data.txSignature, JsOr(data.transactionSignature, data.sig)))
      [] c = TaxedSendV3 ->
           JsOr(data.signature, JsOr(data.txSignature, data.transactionSignature))
      [] OTHER -> ""

\* CASE B: the serialized transaction a card reads from the body
\* (part_002:107-108, part_002:410-411); the single-path cards read
\* json.transaction, and only of a body with ok (part_000:119, part_001:79).
ReadTransaction(c, data) ==
    IF c \in DualPath
    THEN JsOr(data.transaction, JsOr(data.tx, JsOr(data.txBase64, data.serializedTx)))
    ELSE IF data.ok THEN data.transaction ELSE ""

\* ------------------------------------------------------------ activity log

Min(a, b) == IF a <= b THEN a ELSE b

\* Mutant of LogAction: the item is put at the tail of the list.
LogAction_AtTail(prev, label, signature) ==
    SubSeq(prev \o <<[label |-> label, signature |-> signature]>>,
           1, Min(Len(prev) + 1, LogCapacity))

\* setActivities((prev) => [item, ...prev].slice(0, 3))   (App.tsx:26-35)
LogAction(prev, label, signature) ==
    SubSeq(<<[label |-> label, signature |-> signature]>> \o prev,
           1, Min(Len(prev) + 1, LogCapacity))

\* -------------------------------------------------------------------- state

VARIABLES
    mounted,         \* the cards on the page
    wallet,          \* useWallet(): the wallet the host environment holds
    backendBaseUrl,  \* the backendBaseUrl prop handed to TaxedSendV3
    ui,              \* per card, its React state: loading, error, txSig/lastSig
    run,             \* per card, its handleSubmit invocation: position, locals,
                     \* and how often it has called each collaborator
    activities,      \* App's activities state, newest first
    appended,        \* every item logAction was called with, oldest first
    submits,         \* handler invocations started so far
    decodes,         \* the decodeTransaction calls made: argument and outcome
    statusCard,      \* StatusCard: its React state and its handler's position
    storefront,      \* StorefrontPurchaseCard: props, state, handler's position
    overview         \* WalletOverview: its React state and its effects' fetches

vars ==
    <<mounted, wallet, backendBaseUrl, ui, run, activities, appended, submits,
      decodes, statusCard, storefront, overview>>

\* What no step of a transfer card's handler changes: the page, the wallet,
\* the prop, the record of decodeTransaction calls (no card calls
\* decodeTransaction), and the state of the other components.
env == <<mounted, wallet, backendBaseUrl, decodes, statusCard, storefront, overview>>

\* StatusCard.tsx:19-21: loading, data (none, or the body's ok), error.
IdleStatus == [pc |-> "idle", loading |-> FALSE, error |-> <<>>, data |-> "none"]

\* part_003:123-127 and the props isMainnet and publicMode; req is the body
\* of the POST, logged the labels the handler has logged, alert the text of
\* its last alert().
NoStoreRequest == [fromPubkey |-> "", amountSol |-> ""]

IdleStore ==
    [isMainnet |-> FALSE, publicMode |-> FALSE, pc |-> "idle",
     submitting |-> FALSE, solAmount |-> "", recipient |-> "",
     req |-> NoStoreRequest, status |-> 0, dataOk |-> FALSE,
     logged |-> <<>>, alert |-> <<>>]

\* PriceTickerBar.tsx:214-222: balances (for "" when null, else the address
\* they were fetched for), loading, error; alive is whether the component is
\* mounted; fetches are the fetchAll calls of the effects run so far, each
\* with its pubkey, its cancelled flag and whether it has settled.
NoBalances == [for |-> ""]

IdleOverview ==
    [alive |-> TRUE, balances |-> NoBalances, loading |-> FALSE,
     error |-> <<>>, fetches |-> <<>>]

\* The components that take no part in a behaviour stay as constructed.
OthersIdle ==
    /\ statusCard = IdleStatus
    /\ storefront = IdleStore
    /\ overview = IdleOverview

IdleUi == [loading |-> FALSE, error |-> <<>>, txSig |-> ""]

\* No invocation: the handler's locals are out of scope.  nth is the
\* invocation's ordinal among those started (0 for none).
IdleRun ==
    [pc |-> "idle", nth |-> 0, amountIn |-> "", toIn |-> <<>>, wpk |-> "",
     req |-> NoRequest, status |-> 0, jsonOk |-> FALSE, data |-> NoBody,
     signature |-> "", base64Tx |-> "", tx |-> NoTx, signed |-> FALSE,
     sig |-> "", caught |-> NoErr, caughtAt |-> "",
     fetchCalls |-> 0, decodeCalls |-> 0, signCalls |-> 0, sendCalls |-> 0,
     confirmCalls |-> 0, confirmed |-> FALSE, logged |-> <<>>]

Init ==
    /\ \E c \in Cards \cup {StatusCard} : mounted = {c}
    /\ wallet \in Wallets
    /\ backendBaseUrl \in BackendUrls
    /\ ui = [c \in Cards |-> IdleUi]
    /\ run = [c \in Cards |-> IdleRun]
    /\ activities = <<>>
    /\ appended = <<>>
    /\ submits = 0
    /\ decodes = <<>>
    /\ OthersIdle

Entry(label, signature) == [label |-> label, signature |-> signature]

\* Mutant of CallLogAction: the new list is built from nothing but the item,
\* as a setter called with a list computed from a stale empty list does.
CallLogAction_Overwrites(c, r, label, signature) ==
    /\ activities' = <<Entry(label, signature)>>
    /\ appended' = Append(appended, Entry(label, signature))
    /\ run' = [run EXCEPT ![c] =
                  [r EXCEPT !.logged = Append(@, Entry(label, signature))]]

\* A call logAction(label, signature) by card c, whose invocation record
\* after this step is r (App.tsx:26-35).
CallLogAction(c, r, label, signature) ==
    /\ activities' = LogAction(activities, label, signature)
    /\ appended' = Append(appended, Entry(label, signature))
    /\ run' = [run EXCEPT ![c] =
                  [r EXCEPT !.logged = Append(@, Entry(label, signature))]]

\* Mutant of Catch: the failure is logged in the catch block and again in
\* the finally block.
Catch_LogsTwice(c, r, err, at) ==
    LET msg == CatchMessage(c, err)
        e == Entry(<<FailPrefix(c)>> \o msg, "")
    IN  /\ ui' = [ui EXCEPT ![c] = [@ EXCEPT !.error = msg, !.loading = FALSE]]
        /\ activities' = LogAction(LogAction(activities, e.label, ""), e.label, "")
        /\ appended' = appended \o <<e, e>>
        /\ run' = [run EXCEPT ![c] =
                     [r EXCEPT !.pc = "done", !.caught = err, !.caughtAt = at,
                               !.logged = @ \o <<e, e>>]]

\* catch (err) { setError(msg); logAction(`... failed: ${msg}`) }
\* finally { setLoading(false) }, for a throw at position `at`.
Catch(c, r, err, at) ==
    LET msg == CatchMessage(c, err)
    IN  /\ ui' = [ui EXCEPT ![c] = [@ EXCEPT !.error = msg, !.loading = FALSE]]
        /\ CallLogAction(c, [r EXCEPT !.pc = "done", !.caught = err, !.caughtAt = at],
                         <<FailPrefix(c)>> \o msg, "")

\* setTxSig(signature); logAction(label, signature)
\* finally { setLoading(false) }
Succeed(c, r, signature) ==
    /\ ui' = [ui EXCEPT ![c] = [@ EXCEPT !.txSig = signature, !.loading = FALSE]]
    /\ CallLogAction(c, [r EXCEPT !.pc = "done"], SuccessLabel(c), signature)

\* Mutant of Submit: the signature of the last success is not cleared.
Submit_KeepsSignature(c, amt, addr) ==
    /\ ~ui[c].loading
    /\ submits' = submits + 1
    /\ UNCHANGED env
    /\ LET v == Validate(c, backendBaseUrl, wallet, amt, addr)
           r == [IdleRun EXCEPT !.nth = submits + 1, !.amountIn = amt,
                                !.toIn = addr, !.wpk = wallet.publicKey]
       IN  IF v.error # <<>>
           THEN /\ ui' = [ui EXCEPT ![c] = [@ EXCEPT !.error = v.error]]
                /\ IF v.label # <<>>
                   THEN CallLogAction(c, [r EXCEPT !.pc = "done"], v.label, "")
                   ELSE /\ run' = [run EXCEPT ![c] = [r EXCEPT !.pc = "done"]]
                        /\ UNCHANGED <<activities, appended>>
           ELSE /\ ui' = [ui EXCEPT ![c] = [@ EXCEPT !.loading = TRUE, !.error = <<>>]]
                /\ run' = [run EXCEPT ![c] =
                            [r EXCEPT !.pc = "awaitFetch",
                                      !.req = BuildRequest(c, wallet, amt, addr),
                                      !.fetchCalls = 1]]
                /\ UNCHANGED <<activities, appended>>

\* handleSubmit up to its first await, the form holding amt and addr:
\* setError(null); setTxSig(null); the checks; on success setLoading(true)
\* and the POST is issued.  The submit button is disabled while loading
\* (part_000:174, part_001:144, part_002:246, part_002:519); nothing else
\* keeps the handler from being entered.
Submit(c, amt, addr) ==
    /\ ~ui[c].loading
    /\ submits' = submits + 1
    /\ UNCHANGED env
    /\ LET v == Validate(c, backendBaseUrl, wallet, amt, addr)
           r == [IdleRun EXCEPT !.nth = submits + 1, !.amountIn = amt,
                                !.toIn = addr, !.wpk = wallet.publicKey]
       IN  IF v.error # <<>>
           THEN /\ ui' = [ui EXCEPT ![c] =
                            [@ EXCEPT !.error = v.error, !.txSig = ""]]
                /\ IF v.label # <<>>
                   THEN CallLogAction(c, [r EXCEPT !.pc = "done"], v.label, "")
                   ELSE /\ run' = [run EXCEPT ![c] = [r EXCEPT !.pc = "done"]]
                        /\ UNCHANGED <<activities, appended>>
           ELSE /\ ui' = [ui EXCEPT ![c] =
                            [loading |-> TRUE, error |-> <<>>, txSig |-> ""]]
                /\ run' = [run EXCEPT ![c] =
                            [r EXCEPT !.pc = "awaitFetch",
                                      !.req = BuildRequest(c, wallet, amt, addr),
                                      !.fetchCalls = 1]]
                /\ UNCHANGED <<activities, appended>>

\* Mutant of FetchRejects: the request is issued a second time before the
\* failure is reported.
FetchRejects_Retries(c, e) ==
    /\ run[c].pc = "awaitFetch"
    /\ UNCHANGED <<env, submits>>
    /\ IF run[c].fetchCalls < 2
       THEN /\ run' = [run EXCEPT ![c] = [@ EXCEPT !.fetchCalls = @ + 1]]
            /\ UNCHANGED <<ui, activities, appended>>
       ELSE Catch(c, run[c], e, "fetch")

\* await fetch(...) rejects with e: no response (transport failure).
FetchRejects(c, e) ==
    /\ run[c].pc = "awaitFetch"
    /\ UNCHANGED <<env, submits>>
    /\ Catch(c, run[c], e, "fetch")

\* Mutant of FetchResolves: the submit button is enabled again as soon as
\* the backend has answered.
FetchResolves_EnablesButton(c, resp) ==
    /\ run[c].pc = "awaitFetch"
    /\ UNCHANGED <<env, submits>>
    /\ LET r == [run[c] EXCEPT !.status = resp.status, !.jsonOk = resp.jsonOk,
                               !.data = resp.body]
       IN  IF ~RespOk(resp.status)
           THEN Catch(c, r, HttpError(resp.status), "status")
           ELSE /\ run' = [run EXCEPT ![c] = [r EXCEPT !.pc = "awaitJson"]]
                /\ ui' = [ui EXCEPT ![c] = [@ EXCEPT !.loading = FALSE]]
                /\ UNCHANGED <<activities, appended>>

\* await fetch(...) resolves with resp; if (!resp.ok) throw; otherwise
\* resp.json() is called.
FetchResolves(c, resp) ==
    /\ run[c].pc = "awaitFetch"
    /\ UNCHANGED <<env, submits>>
    /\ LET r == [run[c] EXCEPT !.status = resp.status, !.jsonOk = resp.jsonOk,
                               !.data = resp.body]
       IN  IF ~RespOk(resp.status)
           THEN Catch(c, r, HttpError(resp.status), "status")
           ELSE /\ run' = [run EXCEPT ![c] = [r EXCEPT !.pc = "awaitJson"]]
                /\ UNCHANGED <<ui, activities, appended>>

\* Mutant of DecodeAndSign: the decoded transaction is broadcast without
\* the wallet having been asked to sign it.
DecodeAndSign_Unsigned(c, r0, base64Tx) ==
    LET d == Decode(c, base64Tx)
        r == [r0 EXCEPT !.base64Tx = base64Tx, !.decodeCalls = @ + 1]
    IN  IF d.threw # NoErr
        THEN Catch(c, r, d.threw, "decode")
        ELSE /\ run' = [run EXCEPT ![c] =
                   [r EXCEPT !.tx = d.tx, !.sendCalls = @ + 1, !.pc = "awaitSend"]]
             /\ UNCHANGED <<ui, activities, appended>>

\* The slow path from the envelope on: the decode, then (except in
\* TaxedSendV3) tx.feePayer = wallet.publicKey, then the wallet is called:
\* signTransaction(tx), or sendTransaction(tx, connection) in TaxedSendV3.
DecodeAndSign(c, r0, base64Tx) ==
    LET d == Decode(c, base64Tx)
        r == [r0 EXCEPT !.base64Tx = base64Tx, !.decodeCalls = @ + 1]
    IN  IF d.threw # NoErr
        THEN Catch(c, r, d.threw, "decode")
        ELSE /\ run' = [run EXCEPT ![c] =
                   [r EXCEPT !.tx = IF c = TaxedSendV3 THEN d.tx
                                    ELSE [d.tx EXCEPT !.feePayer = r.wpk],
                             !.signCalls = @ + 1,
                             !.pc = IF c = TaxedSendV3 THEN "awaitSendTransaction"
                                    ELSE "awaitSign"]]
             /\ UNCHANGED <<ui, activities, appended>>

\* await resp.json() rejects with e: the body is no JSON.
JsonRejects(c, e) ==
    /\ run[c].pc = "awaitJson"
    /\ ~run[c].jsonOk
    /\ UNCHANGED <<env, submits>>
    /\ Catch(c, run[c], e, "json")

\* Mutant of JsonResolves: the check that the body holds a transaction is
\* missing.
JsonResolves_NoPayloadCheck(c) ==
    /\ run[c].pc = "awaitJson"
    /\ run[c].jsonOk
    /\ UNCHANGED <<env, submits>>
    /\ LET data == run[c].data
           signature == ReadSignature(c, data)
           r == [run[c] EXCEPT !.signature = signature]
       IN  IF signature # ""
           THEN Succeed(c, r, signature)
           ELSE DecodeAndSign(c, r, ReadTransaction(c, data))

\* Mutant of JsonResolves: a transaction in the body is taken before a
\* signature.
JsonResolves_TransactionFirst(c) ==
    /\ run[c].pc = "awaitJson"
    /\ run[c].jsonOk
    /\ UNCHANGED <<env, submits>>
    /\ LET data == run[c].data
           signature == ReadSignature(c, data)
           base64Tx == ReadTransaction(c, data)
           r == [run[c] EXCEPT !.signature = signature]
       IN  IF base64Tx # ""
           THEN DecodeAndSign(c, r, base64Tx)
           ELSE IF signature # ""
           THEN Succeed(c, r, signature)
           ELSE Catch(c, r, PayloadError(c, data), "payload")

\* await resp.json() resolves; the handler runs to its next await: CASE A
\* (a signature: done), the payload check, the decode, the call of the wallet.
JsonResolves(c) ==
    /\ run[c].pc = "awaitJson"
    /\ run[c].jsonOk
    /\ UNCHANGED <<env, submits>>
    /\ LET data == run[c].data
           signature == ReadSignature(c, data)
           base64Tx == ReadTransaction(c, data)
           r == [run[c] EXCEPT !.signature = signature]
       IN  IF signature # ""
           THEN Succeed(c, r, signature)
           ELSE IF base64Tx = ""
           THEN Catch(c, r, PayloadError(c, data), "payload")
           ELSE DecodeAndSign(c, r, base64Tx)

\* Mutant of SignResolves: the confirmation wait is started before the
\* broadcast.
SignResolves_ConfirmFirst(c) ==
    /\ run[c].pc = "awaitSign"
    /\ run' = [run EXCEPT ![c] = [@ EXCEPT !.signed = TRUE, !.confirmCalls = @ + 1,
                                            !.pc = "awaitConfirm"]]
    /\ UNCHANGED <<env, submits, ui, activities, appended>>

\* await wallet.signTransaction(tx) resolves: sendRawTransaction is called.
SignResolves(c) ==
    /\ run[c].pc = "awaitSign"
    /\ run' = [run EXCEPT ![c] = [@ EXCEPT !.signed = TRUE, !.sendCalls = @ + 1,
                                            !.pc = "awaitSend"]]
    /\ UNCHANGED <<env, submits, ui, activities, appended>>

\* Mutant of SignRejects: the failure is reported and the transaction is
\* broadcast all the same.
SignRejects_BroadcastsAnyway(c, e) ==
    /\ run[c].pc = "awaitSign"
    /\ UNCHANGED <<env, submits>>
    /\ Catch(c, [run[c] EXCEPT !.sendCalls = @ + 1], e, "sign")

\* await wallet.signTransaction(tx) rejects with e: the user declined, or the
\* wallet failed.
SignRejects(c, e) ==
    /\ run[c].pc = "awaitSign"
    /\ UNCHANGED <<env, submits>>
    /\ Catch(c, run[c], e, "sign")

\* await connection.sendRawTransaction(...) resolves with the signature the
\* network assigns: confirmTransaction(sig, "confirmed") is called.
SendResolves(c) ==
    /\ run[c].pc = "awaitSend"
    /\ run' = [run EXCEPT ![c] = [@ EXCEPT !.sig = NetworkSig, !.confirmCalls = @ + 1,
                                            !.pc = "awaitConfirm"]]
    /\ UNCHANGED <<env, submits, ui, activities, appended>>

SendRejects(c, e) ==
    /\ run[c].pc = "awaitSend"
    /\ UNCHANGED <<env, submits>>
    /\ Catch(c, run[c], e, "send")

\* Mutant of ConfirmResolves: the success carries the signature of the
\* backend's body when it has one.
ConfirmResolves_BackendSig(c) ==
    /\ run[c].pc = "awaitConfirm"
    /\ UNCHANGED <<env, submits>>
    /\ Succeed(c, [run[c] EXCEPT !.confirmed = TRUE],
               JsOr(run[c].data.signature, run[c].sig))

\* await connection.confirmTransaction(sig, "confirmed") resolves.
ConfirmResolves(c) ==
    /\ run[c].pc = "awaitConfirm"
    /\ UNCHANGED <<env, submits>>
    /\ Succeed(c, [run[c] EXCEPT !.confirmed = TRUE], run[c].sig)

\* Mutant of ConfirmRejects: when the wait for confirmation times out it is
\* started again (the count of waits alternates between one and two).
ConfirmRejects_Polls(c, e) ==
    /\ run[c].pc = "awaitConfirm"
    /\ UNCHANGED <<env, submits, ui, activities, appended>>
    /\ run' = [run EXCEPT ![c] =
                  [@ EXCEPT !.confirmCalls = IF @ = 1 THEN 2 ELSE 1]]

\* await connection.confirmTransaction(...) rejects with e: the wait timed
\* out or failed.
ConfirmRejects(c, e) ==
    /\ run[c].pc = "awaitConfirm"
    /\ UNCHANGED <<env, submits>>
    /\ Catch(c, run[c], e, "confirm")

\* TaxedSendV3: await sendTransaction(tx, connection) resolves: the wallet
\* has signed and broadcast, and hands back the signature (part_002:423).
SendTransactionResolves(c) ==
    /\ run[c].pc = "awaitSendTransaction"
    /\ UNCHANGED <<env, submits>>
    /\ Succeed(c, [run[c] EXCEPT !.signed = TRUE, !.sendCalls = @ + 1,
                                 !.sig = NetworkSig, !.signature = NetworkSig],
               NetworkSig)

\* TaxedSendV3: sendTransaction rejects with e, the user having declined
\* (nothing was broadcast).
SendTransactionDeclined(c, e) ==
    /\ run[c].pc = "awaitSendTransaction"
    /\ UNCHANGED <<env, submits>>
    /\ Catch(c, run[c], e, "sign")

\* TaxedSendV3: sendTransaction rejects with e, the broadcast having failed.
SendTransactionFails(c, e) ==
    /\ run[c].pc = "awaitSendTransaction"
    /\ UNCHANGED <<env, submits>>
    /\ Catch(c, [run[c] EXCEPT !.signed = TRUE, !.sendCalls = @ + 1], e, "send")

\* The handler has returned; its locals go out of scope.
Return(c) ==
    /\ run[c].pc = "done"
    /\ run' = [run EXCEPT ![c] = IdleRun]
    /\ UNCHANGED <<env, submits, ui, activities, appended>>

\* -------------------------------------------- StatusCard.handleCheckStatus

\* What the backend answers a status check with.
StatusResponses ==
    { [status |-> st, jsonOk |-> FALSE, ok |-> FALSE] : st \in {200, 500} }
    \cup { [status |-> 200, jsonOk |-> TRUE, ok |-> o] : o \in BOOLEAN }

\* The catch block's message of StatusCard.tsx:53-56.
StatusCatchMessage(err) ==
    IF err.message # <<>> THEN err.message ELSE <<"Failed to reach backend.">>

\* A logAction call of a component that keeps no record of its own.
LogOnly(label) ==
    /\ activities' = LogAction(activities, label, "")
    /\ appended' = Append(appended, Entry(label, ""))

\* Mutant of StatusCatch: the loading flag is left set.
StatusCatch_KeepsLoading(err) ==
    /\ statusCard' = [statusCard EXCEPT !.pc = "idle",
                                        !.error = StatusCatchMessage(err)]
    /\ LogOnly(<<"System status check failed: ">> \o StatusCatchMessage(err))

\* catch { setError(msg); logAction(...) } finally { setLoading(false) }
StatusCatch(err) ==
    /\ statusCard' = [statusCard EXCEPT !.pc = "idle", !.loading = FALSE,
                                        !.error = StatusCatchMessage(err)]
    /\ LogOnly(<<"System status check failed: ">> \o StatusCatchMessage(err))

\* handleCheckStatus to its first await: setLoading(true); setError(null);
\* the POST.  The button is disabled while loading (StatusCard.tsx:77).
CheckStatus ==
    /\ ~statusCard.loading
    /\ submits' = submits + 1
    /\ statusCard' = [statusCard EXCEPT !.pc = "awaitFetch", !.loading = TRUE,
                                        !.error = <<>>]
    /\ UNCHANGED <<mounted, wallet, backendBaseUrl, decodes, storefront, overview,
                   ui, run, activities, appended>>

StatusFetchRejects(e) ==
    /\ statusCard.pc = "awaitFetch"
    /\ StatusCatch(e)
    /\ UNCHANGED <<mounted, wallet, backendBaseUrl, decodes, storefront, overview,
                   ui, run, submits>>

\* if (!resp.ok) throw new Error(`Backend HTTP ${resp.status}`); otherwise
\* resp.json() is called.
StatusFetchResolves(resp) ==
    /\ statusCard.pc = "awaitFetch"
    /\ IF ~RespOk(resp.status)
       THEN StatusCatch(HttpError(resp.status))
       ELSE /\ statusCard' =
                  [statusCard EXCEPT !.pc = IF resp.jsonOk
                                            THEN IF resp.ok THEN "awaitJsonOk"
                                                 ELSE "awaitJsonNotOk"
                                            ELSE "awaitJsonBad"]
            /\ UNCHANGED <<activities, appended>>
    /\ UNCHANGED <<mounted, wallet, backendBaseUrl, decodes, storefront, overview,
                   ui, run, submits>>

StatusJsonRejects(e) ==
    /\ statusCard.pc = "awaitJsonBad"
    /\ StatusCatch(e)
    /\ UNCHANGED <<mounted, wallet, backendBaseUrl, decodes, storefront, overview,
                   ui, run, submits>>

\* setData(json); logAction(online / reported an error); finally
\* setLoading(false).
StatusJsonResolves ==
    /\ statusCard.pc \in {"awaitJsonOk", "awaitJsonNotOk"}
    /\ LET ok == statusCard.pc = "awaitJsonOk"
       IN  /\ statusCard' = [statusCard EXCEPT !.pc = "idle", !.loading = FALSE,
                                 !.data = IF ok THEN "ok" ELSE "notOk"]
           /\ LogOnly(IF ok THEN <<"System status: backend online">>
                      ELSE <<"System status: backend reported an error">>)
    /\ UNCHANGED <<mounted, wallet, backendBaseUrl, decodes, storefront, overview,
                   ui, run, submits>>

\* ---------------------------------------------------------- specification

\* One card is on the page, with the activity log; its form is submitted when
\* no invocation is in flight, at most MaxSubmits times.  When the card is the
\* StatusCard, its button is pressed at most MaxSubmits times.
MaySubmit == submits < MaxSubmits /\ \A d \in Cards : run[d].pc = "idle"

Destinations(c) == IF c \in HasDestination THEN AddrInputs ELSE {<<>>}

Next ==
    \/ \E c \in mounted \cap Cards : \E amt \in AmountInputs : \E addr \in Destinations(c) :
          MaySubmit /\ Submit(c, amt, addr)
    \/ \E c \in mounted \cap Cards : \E e \in FetchErrors : FetchRejects(c, e)
    \/ \E c \in mounted \cap Cards : \E resp \in Responses : FetchResolves(c, resp)
    \/ \E c \in mounted \cap Cards : \E e \in JsonErrors : JsonRejects(c, e)
    \/ \E c \in mounted \cap Cards : JsonResolves(c)
    \/ \E c \in mounted \cap Cards : SignResolves(c)
    \/ \E c \in mounted \cap Cards : \E e \in SignErrors : SignRejects(c, e)
    \/ \E c \in mounted \cap Cards : SendResolves(c)
    \/ \E c \in mounted \cap Cards : \E e \in SendErrors : SendRejects(c, e)
    \/ \E c \in mounted \cap Cards : ConfirmResolves(c)
    \/ \E c \in mounted \cap Cards : \E e \in ConfirmErrors : ConfirmRejects(c, e)
    \/ \E c \in mounted \cap Cards : SendTransactionResolves(c)
    \/ \E c \in mounted \cap Cards : \E e \in SignErrors : SendTransactionDeclined(c, e)
    \/ \E c \in mounted \cap Cards : \E e \in SendErrors : SendTransactionFails(c, e)
    \/ \E c \in mounted \cap Cards : Return(c)
    \/ StatusCard \in mounted /\ submits < MaxSubmits /\ CheckStatus
    \/ StatusCard \in mounted /\ \E e \in FetchErrors : StatusFetchRejects(e)
    \/ StatusCard \in mounted /\ \E resp \in StatusResponses : StatusFetchResolves(resp)
    \/ StatusCard \in mounted /\ \E e \in JsonErrors : StatusJsonRejects(e)
    \/ StatusCard \in mounted /\ StatusJsonResolves

Spec == Init /\ [][Next]_vars

\* The promises a handler awaits settle.  The backend's: fetch and
\* resp.json().
BackendSettles ==
    \E c \in mounted \cap Cards :
        \/ \E e \in FetchErrors : FetchRejects(c, e)
        \/ \E resp \in Responses : FetchResolves(c, resp)
        \/ \E e \in JsonErrors : JsonRejects(c, e)
        \/ JsonResolves(c)

\* The wallet's: signTransaction, and sendTransaction in TaxedSendV3.
WalletSettles ==
    \E c \in mounted \cap Cards :
        \/ SignResolves(c)
        \/ \E e \in SignErrors : SignRejects(c, e)
        \/ SendTransactionResolves(c)
        \/ \E e \in SignErrors : SendTransactionDeclined(c, e)
        \/ \E e \in SendErrors : SendTransactionFails(c, e)

\* The RPC node's: sendRawTransaction, and confirmTransaction, which waits
\* for the confirmation or for its time limit, whichever comes first.
NetworkSettles ==
    \E c \in mounted \cap Cards :
        \/ SendResolves(c)
        \/ \E e \in SendErrors : SendRejects(c, e)
        \/ ConfirmResolves(c)
        \/ \E e \in ConfirmErrors : ConfirmRejects(c, e)

\* One card is on the page, a wallet connected that can sign; its form is
\* filled in well and submitted at most MaxLiveSubmits times, and every
\* promise its handler awaits settles in the end.
LiveInit ==
    /\ \E c \in Cards : mounted = {c}
    /\ wallet = ConnectedSigner
    /\ backendBaseUrl = "http://localhost:8080"
    /\ ui = [c \in Cards |-> IdleUi]
    /\ run = [c \in Cards |-> IdleRun]
    /\ activities = <<>>
    /\ appended = <<>>
    /\ submits = 0
    /\ decodes = <<>>
    /\ OthersIdle

LiveNext ==
    \/ \E c \in mounted :
          /\ submits < MaxLiveSubmits
          /\ run[c].pc = "idle"
          /\ Submit(c, "0.5", IF c \in HasDestination THEN Rep("a", MinAddrLen)
                               ELSE <<>>)
    \/ BackendSettles
    \/ WalletSettles
    \/ NetworkSettles
    \/ \E c \in mounted : Return(c)

LiveSpec ==
    /\ LiveInit /\ [][LiveNext]_vars
    /\ WF_vars(BackendSettles)
    /\ WF_vars(WalletSettles)
    /\ WF_vars(NetworkSettles)

\* ------------------------------------------------- the page (App.tsx:94-100)

\* The page as App renders it: a TaxedSendCard and the PurchaseCard side by
\* side, handed the same logAction, a wallet connected that can sign.  A
\* card's form is submitted whenever that card is not loading, whatever the
\* other card is doing, so that invocations of the two cards overlap.
AppInit ==
    /\ mounted = {TaxedSendV2, PurchaseCard}
    /\ wallet = ConnectedSigner
    /\ backendBaseUrl = "http://localhost:8080"
    /\ ui = [c \in Cards |-> IdleUi]
    /\ run = [c \in Cards |-> IdleRun]
    /\ activities = <<>>
    /\ appended = <<>>
    /\ submits = 0
    /\ decodes = <<>>
    /\ OthersIdle

\* A form filled in well.
AppDestination(c) == IF c \in HasDestination THEN Rep("a", MinAddrLen) ELSE <<>>

\* What the backend answers on the page: a server error, a signature, a
\* legacy transaction to sign.
AppResponses ==
    { [status |-> 500, jsonOk |-> FALSE, body |-> NoBody],
      [status |-> 200, jsonOk |-> TRUE,
       body |-> [NoBody EXCEPT !.ok = TRUE, !.signature = BackendSig]],
      [status |-> 200, jsonOk |-> TRUE,
       body |-> [NoBody EXCEPT !.ok = TRUE, !.transaction = "B64_LEGACY"]] }

AppNext ==
    \/ \E c \in mounted :
          submits < MaxAppSubmits /\ Submit(c, "0.5", AppDestination(c))
    \/ \E c \in mounted : \E resp \in AppResponses : FetchResolves(c, resp)
    \/ \E c \in mounted : JsonResolves(c)
    \/ \E c \in mounted : SignResolves(c)
    \/ \E c \in mounted : SendResolves(c)
    \/ \E c \in mounted : ConfirmResolves(c)
    \/ \E c \in mounted : Return(c)

AppSpec == AppInit /\ [][AppNext]_vars

\* ----------------------- StorefrontPurchaseCard.handleSubmit (part_003)

\* What the user can have typed in the SOL amount field, and parseFloat of
\* it, in tenths.
StoreAmounts == {"", "abc", "0", "0.5"}

ParseFloat(s) ==
    CASE s = "0" -> [cls |-> "finite", tenths |-> 0]
      [] s = "0.5" -> [cls |-> "finite", tenths |-> 5]
      [] OTHER -> [cls |-> "NaN", tenths |-> 0]

\* What the recipient field can hold (it is trimmed as it is typed,
\* part_003:310): nothing, the connected wallet's address, another address.
StoreRecipients == {"", "Wallet1", "Wallet2"}

\* What the backend answers a storefront request with: a status, a body that
\* is JSON or not, and the body's ok and error.
StoreResponses ==
    { [status |-> st, jsonOk |-> FALSE, ok |-> FALSE, error |-> ""] :
          st \in {200, 500} }
    \cup { [status |-> st, jsonOk |-> TRUE, ok |-> o, error |-> e] :
              st \in {200, 500}, o \in BOOLEAN, e \in {"", "sold out"} }

\* A logAction call of the storefront card.
StoreLog(st, label) ==
    /\ storefront' = [st EXCEPT !.logged = Append(@, label)]
    /\ LogOnly(label)

\* handleSubmit to its first await.  The submit button is disabled while
\* submitting, off mainnet and out of public mode (part_003:357).  The checks
\* alert and return; otherwise setSubmitting(true) and the POST, whose
\* fromPubkey is the recipient field (part_003:157).
StoreSubmit(sol, rcp) ==
    /\ ~(storefront.submitting \/ ~storefront.isMainnet \/ ~storefront.publicMode)
    /\ submits' = submits + 1
    /\ LET st == [storefront EXCEPT !.solAmount = sol, !.recipient = rcp,
                                    !.req = NoStoreRequest, !.status = 0,
                                    !.dataOk = FALSE, !.alert = <<>>]
           n == ParseFloat(sol)
       IN  storefront' =
             IF ~st.isMainnet
             THEN [st EXCEPT !.alert =
                      <<"Storefront purchases are only available on MAINNET.">>]
             ELSE IF ~st.publicMode
             THEN [st EXCEPT !.alert =
                      <<"Switch to Public view to submit a storefront request.">>]
             ELSE IF sol = "" \/ rcp = ""
             THEN [st EXCEPT !.alert =
                      <<"Please enter a SOL amount and recipient wallet address.">>]
             ELSE IF ~IsFinite(n) \/ LeqZero(n)
             THEN [st EXCEPT !.alert =
                      <<"Please enter a valid positive SOL amount.">>]
             ELSE [st EXCEPT !.submitting = TRUE, !.pc = "awaitFetch",
                             !.req = [fromPubkey |-> rcp, amountSol |-> sol]]
    /\ UNCHANGED <<mounted, wallet, backendBaseUrl, decodes, statusCard, overview,
                   ui, run, activities, appended>>

\* catch { logAction(...); alert(...) } finally { setSubmitting(false) }
StoreFetchRejects ==
    /\ storefront.pc = "awaitFetch"
    /\ StoreLog([storefront EXCEPT
                    !.pc = "idle", !.submitting = FALSE,
                    !.alert = <<"Unexpected error submitting storefront request. Please try again.">>],
                <<"Storefront request error (mainnet)">>)
    /\ UNCHANGED <<mounted, wallet, backendBaseUrl, decodes, statusCard, overview,
                   ui, run, submits>>

\* await fetch(...) resolves; resp.json() is called whatever the status.
StoreFetchResolves(resp) ==
    /\ storefront.pc = "awaitFetch"
    /\ storefront' = [storefront EXCEPT
                         !.pc = IF resp.jsonOk THEN "awaitJson" ELSE "awaitJsonBad",
                         !.status = resp.status, !.dataOk = resp.ok,
                         !.alert = IF resp.error = "" THEN <<>> ELSE <<resp.error>>]
    /\ UNCHANGED <<mounted, wallet, backendBaseUrl, decodes, statusCard, overview,
                   ui, run, submits, activities, appended>>

\* await resp.json().catch(() => ({})) settles, with {} when the body is no
\* JSON.  if (!resp.ok || !data.ok): log, alert, return; otherwise log,
\* alert, reset the form.  finally setSubmitting(false).
StoreJsonSettles ==
    /\ storefront.pc \in {"awaitJson", "awaitJsonBad"}
    /\ LET parsed == storefront.pc = "awaitJson"
           ok == parsed /\ storefront.dataOk
           error == IF parsed THEN storefront.alert ELSE <<>>
           st == [storefront EXCEPT !.pc = "idle", !.submitting = FALSE,
                                    !.dataOk = ok]
       IN  IF ~RespOk(storefront.status) \/ ~ok
           THEN StoreLog([st EXCEPT !.alert =
                            IF error # <<>> THEN error
                            ELSE <<"Storefront request failed (status ",
                                   StatusText(storefront.status),
                                   "). Please try again or contact support.">>],
                         <<"Storefront request failed (mainnet)">>)
           ELSE StoreLog([st EXCEPT !.alert = <<"Storefront request recorded.">>,
                                    !.solAmount = "", !.recipient = ""],
                         <<"Storefront request: ", storefront.solAmount,
                           " SOL -> AKSOL for ", storefront.recipient,
                           " (manual fulfillment)">>)
    /\ UNCHANGED <<mounted, wallet, backendBaseUrl, decodes, statusCard, overview,
                   ui, run, submits>>

\* The storefront card is on the page, on either cluster and in either view,
\* whatever the wallet; its form is submitted at most MaxStoreSubmits times.
StoreInit ==
    /\ mounted = {StorefrontPurchaseCard}
    /\ wallet \in Wallets
    /\ backendBaseUrl = "http://localhost:8080"
    /\ ui = [c \in Cards |-> IdleUi]
    /\ run = [c \in Cards |-> IdleRun]
    /\ activities = <<>>
    /\ appended = <<>>
    /\ submits = 0
    /\ decodes = <<>>
    /\ statusCard = IdleStatus
    /\ overview = IdleOverview
    /\ \E m \in BOOLEAN, pm \in BOOLEAN :
          storefront = [IdleStore EXCEPT !.isMainnet = m, !.publicMode = pm]

StoreNext ==
    \/ \E sol \in StoreAmounts, rcp \in StoreRecipients :
          submits < MaxStoreSubmits /\ StoreSubmit(sol, rcp)
    \/ StoreFetchRejects
    \/ \E resp \in StoreResponses : StoreFetchResolves(resp)
    \/ StoreJsonSettles

StoreSpec == StoreInit /\ [][StoreNext]_vars

\* ------------------------- WalletOverview (PriceTickerBar.tsx:210-292)

\* wallet.publicKey as the component can see it: none, or one of two
\* addresses.
OverviewKeys == {"", "Wallet1", "Wallet2"}

\* The cleanup of the effect that ran last: cancelled = true.  The flags of
\* the earlier effects are set already.
Cleanup(fetches) ==
    [i \in 1..Len(fetches) |-> [fetches[i] EXCEPT !.cancelled = TRUE]]

\* wallet.publicKey becomes p: the component renders again, the cleanup of
\* the last effect runs, then the effect.  With no pubkey it resets balances
\* and error and returns; otherwise fetchAll() runs to its await:
\* setLoading(true), setError(null), the three RPC calls.
WalletChanges(p) ==
    /\ overview.alive
    /\ p # wallet.publicKey
    /\ submits' = submits + 1
    /\ wallet' = IF p = "" THEN Disconnected
                 ELSE [connected |-> TRUE, publicKey |-> p, canSign |-> TRUE]
    /\ overview' =
          IF p = ""
          THEN [overview EXCEPT !.fetches = Cleanup(@),
                                !.balances = NoBalances, !.error = <<>>]
          ELSE [overview EXCEPT
                   !.fetches = Append(Cleanup(@),
                                      [for |-> p, cancelled |-> FALSE,
                                       settled |-> FALSE]),
                   !.loading = TRUE, !.error = <<>>]
    /\ UNCHANGED <<mounted, backendBaseUrl, decodes, statusCard, storefront,
                   ui, run, activities, appended>>

\* The Promise.all of fetch i resolves: if (cancelled) return; otherwise
\* setBalances(the data of its pubkey) and, in finally, setLoading(false).
OverviewFetchResolves(i) ==
    /\ i \in 1..Len(overview.fetches)
    /\ ~overview.fetches[i].settled
    /\ overview' =
          IF overview.fetches[i].cancelled
          THEN [overview EXCEPT !.fetches[i].settled = TRUE]
          ELSE [overview EXCEPT !.fetches[i].settled = TRUE,
                                !.balances = [for |-> overview.fetches[i].for],
                                !.loading = FALSE]
    /\ UNCHANGED <<mounted, wallet, backendBaseUrl, decodes, statusCard,
                   storefront, ui, run, activities, appended, submits>>

\* The Promise.all of fetch i rejects with e: if (cancelled) return;
\* otherwise setError(msg) and, in finally, setLoading(false).
OverviewFetchRejects(i, e) ==
    /\ i \in 1..Len(overview.fetches)
    /\ ~overview.fetches[i].settled
    /\ overview' =
          IF overview.fetches[i].cancelled
          THEN [overview EXCEPT !.fetches[i].settled = TRUE]
          ELSE [overview EXCEPT !.fetches[i].settled = TRUE,
                                !.error = IF e.message # <<>> THEN e.message
                                          ELSE <<"Failed to load wallet data">>,
                                !.loading = FALSE]
    /\ UNCHANGED <<mounted, wallet, backendBaseUrl, decodes, statusCard,
                   storefront, ui, run, activities, appended, submits>>

\* The component unmounts: the cleanup of the last effect runs.
OverviewUnmount ==
    /\ overview.alive
    /\ overview' = [overview EXCEPT !.alive = FALSE, !.fetches = Cleanup(@)]
    /\ UNCHANGED <<mounted, wallet, backendBaseUrl, decodes, statusCard,
                   storefront, ui, run, activities, appended, submits>>

\* WalletOverview is mounted with no wallet connected: its first effect has
\* reset balances and error.  The wallet's address changes at most
\* MaxWalletChanges times.
OverviewInit ==
    /\ mounted = {WalletOverview}
    /\ wallet = Disconnected
    /\ backendBaseUrl = "http://localhost:8080"
    /\ ui = [c \in Cards |-> IdleUi]
    /\ run = [c \in Cards |-> IdleRun]
    /\ activities = <<>>
    /\ appended = <<>>
    /\ submits = 0
    /\ decodes = <<>>
    /\ OthersIdle

OverviewNext ==
    \/ \E p \in OverviewKeys : submits < MaxWalletChanges /\ WalletChanges(p)
    \/ \E i \in 1..MaxWalletChanges : OverviewFetchResolves(i)
    \/ \E i \in 1..MaxWalletChanges : \E e \in FetchErrors \cup {Err(<<>>)} :
          OverviewFetchRejects(i, e)
    \/ OverviewUnmount

OverviewSpec == OverviewInit /\ [][OverviewNext]_vars

\* ------------------------------------- decodeTransaction (part_004:43-53)

\* Mutant of DecodeCall: once a call has thrown, the decoder tries the legacy
\* parser first.
DecodeCall_Cached(base64) ==
    /\ Len(decodes) < MaxDecodes
    /\ LET b == Base64ToUint8Array(base64)
           l == TransactionFrom(b.bytes)
           failedBefore == \E i \in 1..Len(decodes) : decodes[i].result.threw # NoErr
       IN  decodes' = Append(decodes,
                 [input |-> base64,
                  result |-> IF failedBefore /\ b.threw = NoErr /\ l.threw = NoErr
                             THEN [threw |-> NoErr, tx |-> l.tx, bytes |-> b.bytes]
                             ELSE DecodeTransaction(base64)])
    /\ UNCHANGED <<mounted, wallet, backendBaseUrl, ui, run, activities,
                   appended, submits, statusCard, storefront, overview>>

\* A call decodeTransaction(base64), by whoever imports the function.
DecodeCall(base64) ==
    /\ Len(decodes) < MaxDecodes
    /\ decodes' = Append(decodes,
                     [input |-> base64, result |-> DecodeTransaction(base64)])
    /\ UNCHANGED <<mounted, wallet, backendBaseUrl, ui, run, activities,
                   appended, submits, statusCard, storefront, overview>>

\* No card on the page: only the function is called, with any of the strings.
DecInit ==
    /\ mounted = {}
    /\ wallet = Disconnected
    /\ backendBaseUrl = ""
    /\ ui = [c \in Cards |-> IdleUi]
    /\ run = [c \in Cards |-> IdleRun]
    /\ activities = <<>>
    /\ appended = <<>>
    /\ submits = 0
    /\ decodes = <<>>
    /\ OthersIdle

DecNext == \E base64 \in DecodeInputs : DecodeCall(base64)

DecSpec == DecInit /\ [][DecNext]_vars

\* ------------------------------------------------------------------ claims

\* The invocation of card c has reached its end: the handler's last
\* statement has run.
Done(c) == run[c].pc = "done"

\* The terminal outcome as the card shows it: Success is a signature in
\* txSig/lastSig, Failure a message in error.
Succeeded(c) == Done(c) /\ ui[c].txSig # "" /\ ui[c].error = <<>>
Failed(c) == Done(c) /\ ui[c].error # <<>> /\ ui[c].txSig = ""

\* The invocation has a response of the backend in hand.
Answered(c) == run[c].status # 0

\* The signature, and the transaction, of a body under any field name a
\* handler reads.
BodySignature(data) ==
    JsOr(data.signature,
         JsOr(data.txSignature, JsOr(data.transactionSignature, data.sig)))

BodyTransaction(data) ==
    JsOr(data.transaction, JsOr(data.tx, JsOr(data.txBase64, data.serializedTx)))

\* The messages of the checks before the backend is called (InvalidInput).
InvalidInputMessages ==
    { <<"Connect a wallet before using the 0% route.">>,
      <<"Connect a wallet before sending with tax.">>,
      <<"Connect a wallet before using the taxed send route.">>,
      <<"Current wallet does not support transaction signing.">>,
      <<"Backend URL is not configured.">>,
      <<"Please enter a recipient address.">>,
      <<"Enter a destination address and amount.">>,
      <<"AKSOL recipient address looks incomplete.">>,
      <<"Amount must be a positive number.">> }

\* The invocation has called neither the decoder, nor the wallet, nor the network.
NoDecodeSignSend(c) ==
    /\ run[c].decodeCalls = 0
    /\ run[c].signCalls = 0
    /\ run[c].sendCalls = 0
    /\ run[c].confirmCalls = 0

\* The invocation has ended in a failure with message msg: the message is
\* shown, no signature is, and the one entry logged is the failure's.
FailedWith(c, msg) ==
    /\ Failed(c)
    /\ ui[c].error = msg
    /\ ~ui[c].loading
    /\ run[c].logged = <<Entry(<<FailPrefix(c)>> \o msg, "")>>

\* C1 (as claimed): every invocation that has ended has called logAction
\* exactly once, whichever path it took.
C1_ExactlyOneAppend ==
    \A c \in Cards : Done(c) => Len(run[c].logged) = 1

\* C2 (as claimed): a success declared on a signature of the backend's
\* response comes after a confirmation wait on that signature has completed.
C2_FastPathConfirms ==
    \A c \in Cards :
        (Succeeded(c) /\ ReadSignature(c, run[c].data) # ""
            /\ ui[c].txSig = ReadSignature(c, run[c].data))
        => (run[c].confirmCalls >= 1 /\ run[c].confirmed)

Unsigned(c) ==
    /\ Answered(c) /\ run[c].jsonOk /\ run[c].data.ok
    /\ run[c].data.transaction # ""
    /\ BodySignature(run[c].data) = ""

\* The handler has gone past its reading of the response.
PastJson(c) == run[c].pc \notin {"idle", "awaitFetch", "awaitJson"}

C5_NoPayloadIsContractViolation ==
    \A c \in Cards :
        (PastJson(c) /\ RespOk(run[c].status)
            /\ BodySignature(run[c].data) = "" /\ BodyTransaction(run[c].data) = "")
        => /\ Failed(c)
           /\ NoDecodeSignSend(c)
           /\ Len(run[c].logged) = 1 /\ run[c].logged[1].signature = ""
           /\ run[c].jsonOk =>
                 /\ run[c].caughtAt = "payload"
                 /\ FailedWith(c, CatchMessage(c, PayloadError(c, run[c].data)))

C5_Witness ==
    \E c \in Cards :
        /\ Failed(c) /\ run[c].jsonOk /\ run[c].data.ok
        /\ BodySignature(run[c].data) = "" /\ BodyTransaction(run[c].data) = ""
        /\ run[c].caughtAt = "payload"

\* C6: an amount that is not a finite number above zero ends the invocation
\* in an InvalidInput failure at once: the backend is never called, and
\* nothing is decoded, signed, broadcast or confirmed.
C6_BadAmountNoNetwork ==
    \A c \in Cards :
        (run[c].pc # "idle"
            /\ (Number(run[c].amountIn).cls # "finite"
                  \/ Number(run[c].amountIn).tenths <= 0))
        => /\ Failed(c)
           /\ ui[c].error \in InvalidInputMessages
           /\ run[c].fetchCalls = 0
           /\ NoDecodeSignSend(c)

C6_Witness ==
    \E c \in Cards :
        /\ Failed(c)
        /\ wallet = ConnectedSigner
        /\ run[c].amountIn = "-1"
        /\ ui[c].error = <<"Amount must be a positive number.">>
        /\ run[c].fetchCalls = 0

\* C7 (as claimed): with no wallet connected, or a wallet that cannot sign
\* (in the cards that call signTransaction), or a destination shorter than
\* the minimum length after trimming, every card fails at once with an
\* InvalidInput message and the backend is never called.
C7_ValidationFailsFast ==
    \A c \in Cards :
        (run[c].pc # "idle"
            /\ \/ wallet.publicKey = ""
               \/ (~wallet.canSign /\ c # TaxedSendV3)
               \/ (c \in HasDestination /\ Len(Trim(run[c].toIn)) < MinAddrLen))
        => /\ Failed(c)
           /\ ui[c].error \in InvalidInputMessages
           /\ run[c].fetchCalls = 0

\* C8 (as claimed): when the confirmation wait fails, the failure keeps the
\* signature obtained: the activity record of the failure carries it.
C8_TimeoutKeepsSignature ==
    \A c \in Cards :
        (Done(c) /\ run[c].caughtAt = "confirm")
        => /\ ui[c].error # <<>>
           /\ run[c].sig # ""
           /\ Len(run[c].logged) = 1
           /\ run[c].logged[1].signature = run[c].sig

\* C9: when the wallet rejects the sign call, the invocation logs exactly
\* one entry, the failure's (no signature, the failure label), and shows the
\* failure.
C9_SignRejectionLogsOnce ==
    \A c \in Cards :
        (Done(c) /\ run[c].caughtAt = "sign")
        => /\ FailedWith(c, CatchMessage(c, run[c].caught))
           /\ activities # <<>> /\ activities[1] = run[c].logged[1]
           /\ run[c].sendCalls = 0 /\ run[c].confirmCalls = 0

C9_Witness ==
    \E c \in Cards :
        /\ Done(c) /\ run[c].caughtAt = "sign"
        /\ run[c].signCalls = 1
        /\ run[c].caught = Err(<<"User rejected the request.">>)
        /\ Len(run[c].logged) = 1

\* C10: a response with a non-2xx status ends the invocation in the failure
\* "Backend HTTP <status>", which names that status, with no decode, sign,
\* broadcast or confirmation.
C10_HttpErrorCarriesStatus ==
    \A c \in Cards :
        (Answered(c) /\ ~RespOk(run[c].status))
        => /\ FailedWith(c, <<"Backend HTTP ", StatusText(run[c].status)>>)
           /\ run[c].caughtAt = "status"
           /\ NoDecodeSignSend(c)

C10_Witness ==
    \E c \in Cards :
        /\ Failed(c) /\ run[c].status = 500
        /\ ui[c].error = <<"Backend HTTP ", "500">>
        /\ run[c].fetchCalls = 1

\* The positions at which the catch block is entered by a failure of the
\* backend call: no response, a non-2xx status, a body that is no JSON, a
\* body without what the handler needs.
BackendFailures == {"fetch", "status", "json", "payload"}

\* C11: a failure of the backend call ends the invocation in a failure at
\* once, with nothing decoded, signed, broadcast or confirmed after it, and
\* no invocation issues more than one backend request, more than one sign
\* call or more than one broadcast.
C11_BackendFailureIsTerminalNoRetry ==
    \A c \in Cards :
        /\ run[c].fetchCalls <= 1 /\ run[c].signCalls <= 1 /\ run[c].sendCalls <= 1
        /\ run[c].caughtAt \in BackendFailures =>
              /\ Failed(c)
              /\ run[c].fetchCalls = 1
              /\ NoDecodeSignSend(c)
              /\ Len(run[c].logged) = 1

C11_Witness ==
    \E c \in Cards :
        /\ Failed(c) /\ run[c].caughtAt = "fetch"
        /\ run[c].caught = Err(<<"Failed to fetch">>)
        /\ run[c].fetchCalls = 1

\* C12: in every step of an invocation, the wallet is called only as the
\* backend's response is read (nothing broadcast or awaited for confirmation
\* yet), the broadcast is started only as the wallet's call resolves, and the
\* confirmation wait only as the broadcast resolves with its signature; the
\* handler awaits one thing at a time.
C12_StepsInOrder ==
    [][\A c \in Cards :
          /\ run'[c].signCalls > run[c].signCalls =>
                /\ run[c].pc = "awaitJson" /\ run[c].fetchCalls = 1
                /\ run[c].status # 0
                /\ run[c].sendCalls = 0 /\ run[c].confirmCalls = 0
          /\ run'[c].sendCalls > run[c].sendCalls =>
                /\ run[c].pc \in {"awaitSign", "awaitSendTransaction"}
                /\ run[c].signCalls = 1 /\ run'[c].signed
                /\ run[c].confirmCalls = 0
          /\ run'[c].confirmCalls > run[c].confirmCalls =>
                /\ run[c].pc = "awaitSend" /\ run[c].signed
                /\ run[c].sendCalls = 1 /\ run'[c].sig # ""
      ]_vars

C12_Witness ==
    \E c \in Cards :
        /\ Succeeded(c) /\ run[c].confirmed
        /\ run[c].fetchCalls = 1 /\ run[c].signCalls = 1
        /\ run[c].sendCalls = 1 /\ run[c].confirmCalls = 1

\* The last n items of a sequence, newest first.
NewestFirst(s, n) == [i \in 1..Min(Len(s), n) |-> s[Len(s) - i + 1]]

\* C13: whatever logAction has been called with, the activity log holds at
\* most 3 records, and they are the 3 most recent items (all of them when
\* fewer), the newest first.
C13_LogIsLastThreeNewestFirst ==
    /\ Len(activities) <= LogCapacity
    /\ activities = NewestFirst(appended, LogCapacity)

C13_Witness ==
    /\ Len(appended) = LogCapacity + 1
    /\ Len(activities) = LogCapacity
    /\ activities[1] = appended[4] /\ activities[3] = appended[2]
    /\ appended[1] # appended[2]
    /\ appended[4] # appended[3]

\* C14: in every step in which an invocation calls logAction, whatever the
\* other card's invocation is doing, the log becomes the item followed by
\* the records it held, the oldest dropped when it was full: no record of
\* another invocation is lost or overwritten.
C14_AppendsAreSerialized ==
    [][\A c \in Cards :
          Len(run'[c].logged) > Len(run[c].logged) =>
              LET e == run'[c].logged[Len(run'[c].logged)]
              IN  /\ appended' = Append(appended, e)
                  /\ activities' =
                        SubSeq(<<e>> \o activities, 1,
                               Min(Len(activities) + 1, LogCapacity))
      ]_vars

\* The PurchaseCard's invocation began first and ended last: the whole
\* invocation of the TaxedSendCard, its logAction call included, ran while
\* the PurchaseCard's was in flight, and the log holds both records.
C14_Witness ==
    /\ Done(TaxedSendV2) /\ Done(PurchaseCard)
    /\ run[PurchaseCard].nth < run[TaxedSendV2].nth
    /\ Len(appended) = LogCapacity + 1
    /\ appended[LogCapacity] = run[TaxedSendV2].logged[1]
    /\ appended[LogCapacity + 1] = run[PurchaseCard].logged[1]
    /\ activities[1] = run[PurchaseCard].logged[1]
    /\ activities[2] = run[TaxedSendV2].logged[1]

\* The body is exactly {ok: true, signature: s}.
OkSignatureOnly(data) ==
    data = [NoBody EXCEPT !.ok = TRUE, !.signature = data.signature]
    /\ data.signature # ""

\* C15 (as claimed): when the backend answers a valid submission with
\* {ok: true, signature: s}, the invocation ends in success showing s, and
\* the one entry it logs carries s.
C15_BroadcastedSucceeds ==
    \A c \in Cards :
        (Done(c) /\ run[c].status = 200 /\ run[c].jsonOk
            /\ OkSignatureOnly(run[c].data))
        => /\ Succeeded(c)
           /\ ui[c].txSig = run[c].data.signature
           /\ run[c].logged = <<Entry(SuccessLabel(c), run[c].data.signature)>>

\* C16: a success reached through the wallet and the broadcast shows, and
\* logs, the signature the network returned for the broadcast, also when the
\* backend's body held a signature of its own.
C16_SlowPathCarriesNetworkSignature ==
    \A c \in Cards :
        (Succeeded(c) /\ run[c].signCalls = 1 /\ run[c].sendCalls = 1)
        => /\ run[c].sig = NetworkSig
           /\ ui[c].txSig = run[c].sig
           /\ run[c].logged = <<Entry(SuccessLabel(c), run[c].sig)>>
           /\ activities # <<>> /\ activities[1] = Entry(SuccessLabel(c), run[c].sig)

C16_Witness ==
    \E c \in Cards :
        /\ Succeeded(c) /\ run[c].confirmed
        /\ run[c].data.signature = BackendSig
        /\ run[c].data.transaction = "B64_LEGACY"
        /\ run[c].sendCalls = 1
        /\ ui[c].txSig = NetworkSig

\* C17 (as claimed): whenever the wallet has been asked to sign, or to sign
\* and send, the transaction handed to it has the connected wallet as its
\* fee payer.
C17_FeePayerSetBeforeSign ==
    \A c \in Cards :
        run[c].signCalls > 0
        => /\ run[c].tx.feePayer = run[c].wpk
           /\ run[c].wpk = wallet.publicKey

\* C18 (as claimed): wherever an envelope is decoded, the versioned parser
\* is tried first and its result returned when it succeeds: the transaction
\* a handler holds after its decode is the versioned one whenever the
\* versioned parser accepts the envelope's bytes.
C18_VersionedFirstEverywhere ==
    /\ \A i \in 1..Len(decodes) :
          LET b == Base64ToUint8Array(decodes[i].input)
          IN  (b.threw = NoErr /\ VersionedDeserialize(b.bytes).threw = NoErr)
              => decodes[i].result.tx = VersionedDeserialize(b.bytes).tx
    /\ \A c \in Cards :
          (run[c].decodeCalls = 1
              /\ VersionedDeserialize(BufferFromBase64(run[c].base64Tx)).threw = NoErr)
          => /\ run[c].caughtAt # "decode"
             /\ run[c].tx.format = "versioned"

\* C19: decodeTransaction throws, and returns no transaction, when its
\* argument is not valid base64 and when neither parser accepts the bytes;
\* it throws in no other case.
C19_DecodeFailsOnlyOnMalformed ==
    \A i \in 1..Len(decodes) :
        LET b == Base64ToUint8Array(decodes[i].input)
            malformed ==
                \/ b.threw # NoErr
                \/ /\ VersionedDeserialize(b.bytes).threw # NoErr
                   /\ TransactionFrom(b.bytes).threw # NoErr
        IN  /\ malformed =>
                /\ decodes[i].result.threw # NoErr
                /\ decodes[i].result.tx = NoTx
            /\ ~malformed =>
                /\ decodes[i].result.threw = NoErr
                /\ decodes[i].result.tx # NoTx

C19_Witness ==
    /\ Len(decodes) = 3
    /\ decodes[1].input = "NOT*BASE64" /\ decodes[1].result.threw # NoErr
    /\ decodes[2].input = "B64_GARBAGE" /\ decodes[2].result.threw # NoErr
    /\ decodes[3].input = "B64_LEGACY_LOOSE"
    /\ decodes[3].result.tx.format = "legacy"

Kind(at) ==
    CASE at = "fetch" -> "BackendUnreachable"
      [] at = "status" -> "BackendRejected"
      [] at \in {"json", "payload"} -> "ContractViolation"
      [] at = "decode" -> "MalformedEnvelope"
      [] at = "sign" -> "SigningFailed"
      [] at = "confirm" -> "ConfirmationTimeout"
      [] OTHER -> ""

Classified == {"fetch", "status", "json", "payload", "decode", "sign", "confirm"}

\* The messages card c can show for a failure at position at.
MessagesAt(c, at) ==
    CASE at = "fetch" -> { CatchMessage(c, e) : e \in FetchErrors }
      [] at = "status" -> { CatchMessage(c, HttpError(st)) : st \in {404, 500} }
      [] at = "json" -> { CatchMessage(c, e) : e \in JsonErrors }
      [] at = "payload" -> { CatchMessage(c, PayloadError(c, d)) : d \in Bodies }
      [] at = "decode" ->
           { CatchMessage(c, Decode(c, b).threw) :
               b \in { x \in Envelopes : Decode(c, x).threw # NoErr } }
      [] at = "sign" -> { CatchMessage(c, e) : e \in SignErrors }
      [] at = "confirm" -> { CatchMessage(c, e) : e \in ConfirmErrors }
      [] OTHER -> {}

\* C21 (as claimed): every failure raised after validation ends the
\* invocation in one failure, logged once, and what the card shows for it
\* tells its kind: it is no message the card shows for a failure of another
\* kind.
C21_FailuresCaughtAndDistinguishable ==
    \A c \in Cards :
        (Done(c) /\ run[c].caughtAt # "")
        => /\ Failed(c)
           /\ ~ui[c].loading
           /\ Len(run[c].logged) = 1
           /\ \A at \in Classified :
                 Kind(at) # Kind(run[c].caughtAt)
                 => ui[c].error \notin MessagesAt(c, at)

\* C22: after a decode failure or a failure of the sign call the invocation
\* has ended in failure: nothing was broadcast, no confirmation was awaited,
\* the wallet was asked at most once, and the one entry logged is the
\* failure's, without a signature.
C22_DecodeOrSignFailureIsTerminal ==
    \A c \in Cards :
        run[c].caughtAt \in {"decode", "sign"}
        => /\ Failed(c)
           /\ run[c].decodeCalls = 1
           /\ run[c].signCalls = (IF run[c].caughtAt = "sign" THEN 1 ELSE 0)
           /\ run[c].sendCalls = 0 /\ run[c].confirmCalls = 0
           /\ ~run[c].signed /\ run[c].sig = ""
           /\ Len(run[c].logged) = 1
           /\ run[c].logged[1].signature = ""
           /\ run[c].logged[1].label # SuccessLabel(c)

C22_Witness ==
    \E c \in Cards :
        /\ Failed(c) /\ run[c].caughtAt = "decode"
        /\ run[c].base64Tx = "B64_GARBAGE"
        /\ run[c].decodeCalls = 1 /\ run[c].signCalls = 0

\* C25 (as claimed): a 2xx response whose body has ok = false leads to no
\* decode, sign or broadcast, to no success, and to no log entry carrying a
\* signature, whatever else the body holds.
C25_NotOkNeverProceeds ==
    \A c \in Cards :
        (PastJson(c) /\ RespOk(run[c].status) /\ run[c].jsonOk /\ ~run[c].data.ok)
        => /\ NoDecodeSignSend(c)
           /\ ~Succeeded(c)
           /\ ui[c].txSig = ""
           /\ \A i \in 1..Len(run[c].logged) : run[c].logged[i].signature = ""

\* C26: when the body holds a signature in a field the dual-path card reads
\* and a serialized transaction as well, the card takes the signature: the
\* invocation ends in success with the backend's signature shown and logged,
\* and nothing is decoded, signed, broadcast or confirmed.
C26_SignatureWinsOverTransaction ==
    \A c \in DualPath :
        (PastJson(c) /\ RespOk(run[c].status) /\ run[c].jsonOk
            /\ BodyTransaction(run[c].data) # ""
            /\ \/ run[c].data.signature # ""
               \/ run[c].data.txSignature # ""
               \/ (c = TaxedSendV2 /\ run[c].data.sig # ""))
        => /\ Succeeded(c)
           /\ ui[c].txSig = BackendSig
           /\ run[c].logged = <<Entry(SuccessLabel(c), BackendSig)>>
           /\ run[c].base64Tx = "" /\ run[c].tx = NoTx
           /\ NoDecodeSignSend(c)

C26_Witness ==
    \E c \in DualPath :
        /\ Succeeded(c)
        /\ run[c].data.txSignature = BackendSig
        /\ run[c].data.tx = "B64_LEGACY"
        /\ run[c].logged[1].signature = BackendSig
        /\ run[c].decodeCalls = 0

\* C28: a transfer card never shows an error and a signature together; in
\* particular a failure that follows an earlier success shows no signature.
C28_ErrorAndSignatureExclusive ==
    \A c \in Cards : ~(ui[c].error # <<>> /\ ui[c].txSig # "")

C28_Witness ==
    \E c \in Cards :
        /\ Failed(c)
        /\ Len(appended) = 2
        /\ appended[1] = Entry(SuccessLabel(c), NetworkSig)
        /\ ui[c].txSig = ""

\* The positions of a handler between its first await and its end.
InFlight(c) == run[c].pc \notin {"idle", "done"}

\* C29: a card's handler is entered only while the card is not loading, and
\* then no invocation of that card is in flight: a second submit of a card
\* begins only after its first has reached its end, so no card has two
\* requests to the backend outstanding at once.
C29_OneInvocationPerCard ==
    [][\A c \in Cards :
          run'[c].nth # run[c].nth /\ run'[c].nth # 0 =>
              /\ ~ui[c].loading
              /\ ~InFlight(c)
              /\ run'[c].fetchCalls <= 1
      ]_vars

\* Three invocations have begun on the two cards, so one card is in its
\* second, begun after its first had logged its outcome; both cards are
\* loading, each with one request outstanding.
C29_Witness ==
    /\ run[TaxedSendV2].nth + run[PurchaseCard].nth = 5
    /\ Len(appended) >= 1
    /\ \A c \in {TaxedSendV2, PurchaseCard} :
          ui[c].loading /\ run[c].pc = "awaitFetch" /\ run[c].fetchCalls = 1

\* C27: a card is loading exactly while an invocation of its handler is
\* between its first await and its end; after a success, a caught failure or
\* the early return of the fast path, and after a rejected form, it is not
\* loading.  The same holds of the StatusCard and its check.
C27_LoadingExactlyWhileInFlight ==
    /\ \A c \in Cards : ui[c].loading <=> InFlight(c)
    /\ \A c \in Cards : Done(c) => ~ui[c].loading
    /\ statusCard.loading <=> statusCard.pc # "idle"

\* A second invocation is in flight and loading, the first having ended (it
\* logged its outcome) with the flag reset, which let the second begin.
C27_Witness ==
    \/ \E c \in mounted \cap Cards :
          /\ run[c].nth = 2 /\ Len(appended) = 1
          /\ run[c].pc = "awaitConfirm" /\ ui[c].loading
    \/ /\ StatusCard \in mounted
       /\ submits = 2 /\ Len(appended) = 1
       /\ statusCard.pc = "awaitJsonOk" /\ statusCard.loading

\* C24: when every promise the handler awaits settles, an invocation that is
\* in flight (waiting for the backend, the wallet, the broadcast or the
\* confirmation) reaches its end: each await is made once, and the wait for
\* confirmation ends with the confirmation or with its time limit.
C24_InvocationTerminates ==
    \A c \in Cards : (InFlight(c) /\ ui[c].loading) ~> (Done(c) /\ ~ui[c].loading)

\* An invocation is waiting for the confirmation of the transaction it has
\* broadcast.
C24_Witness ==
    \E c \in mounted \cap Cards :
        /\ run[c].pc = "awaitConfirm" /\ run[c].confirmCalls = 1
        /\ run[c].sendCalls = 1 /\ run[c].signed

\* C23 (as claimed): the fromPubkey of every request a form has built is the
\* address of the wallet that is connected.
C23_SourceIsConnectedWallet ==
    /\ \A c \in Cards :
          run[c].req # NoRequest =>
              wallet.connected /\ run[c].req.fromPubkey = wallet.publicKey
    /\ storefront.req # NoStoreRequest =>
          wallet.connected /\ storefront.req.fromPubkey = wallet.publicKey

\* C30 (as claimed): while WalletOverview is mounted, the balances it holds
\* were fetched for the wallet address that is current, or are null; with no
\* wallet connected they are null.
C30_BalancesBelongToCurrentWallet ==
    overview.alive =>
        /\ overview.balances.for \in {"", wallet.publicKey}
        /\ ~wallet.connected => overview.balances = NoBalances
====
